---- MODULE Spec2Model ----
(***************************************************************************)
(* koatty_schedule: the redis lock engine (src/src/locker.ts, class        *)
(* Locker) and the lock-guarded executor (src/unnamed/part_000, the        *)
(* SchedulerLock decorator's wrapped value).                               *)
(*                                                                         *)
(* Replicas are processes; each process owns one Locker singleton          *)
(* (lockMap, client) and one ScheduleLocker.locker handle.  A process      *)
(* runs several asynchronous flows; a flow makes one call at a time and    *)
(* yields at every await, so the steps of different flows interleave.      *)
(* A run has two flows, in one process or in two (owner).                  *)
(* A store command takes effect at the store in one step (SET NX PX, the   *)
(* lua_unlock script), and the code after the await runs in a later step.  *)
(* Time is a global clock; any amount of time may pass between two steps.  *)
(***************************************************************************)
EXTENDS Integers, FiniteSets, Sequences, TLC

\* ---------------------------------------------------------------- bounds
MaxTime == 2
MaxTok == 2
MaxTtl == 1
MaxFire == 3

\* ------------------------------------------------------ program constants
DefaultExpire == 10000
DefaultInterval == 50
DefaultWaitTime == 15000
\* an omitted (undefined) optional argument
Undef == -1

Procs == {"A", "B"}
Flows == {"f1", "f2"}
Keys == {"k1", "k2"}
\* the lock name the replicas contend for
Names == {"k1"}
KeyPrefix == "pfx:"

VARIABLES owner, now, store, dels, nextTok, app, client, lockMap, locker, fl, cron

vars == <<owner, now, store, dels, nextTok, app, client, lockMap, locker, fl, cron>>

\* the process a flow runs in
ProcOf(f) == owner[f]

\* `${this.options.key_prefix}${key}`
PrefixKey(k) == <<KeyPrefix, k>>
PKeys == {PrefixKey(k) : k \in Keys}

\* no CronJob created for a method; the decorator arguments of a method
NoArgs == <<Undef, Undef, Undef>>
NoJob == [job |-> "none", lock |-> FALSE, args |-> NoArgs, fired |-> 0, caught |-> 0]

\* a parameter default: applies to undefined only
Default(v, d) == IF v = Undef THEN d ELSE v

\* JavaScript truthiness of an optional number
Truthy(v) == v # Undef /\ v # 0

\* no record at a key of the store / no entry in lockMap
NoRec == [tok |-> 0, exp |-> 0, by |-> "-", at |-> 0, ttl |-> 0]
NoEntry == [value |-> 0, expire |-> 0]

\* crypto.randomBytes(16).toString('hex'): a value never produced before
randomBytes == nextTok

IdleRec == [top |-> "idle", pc |-> "idle", key |-> "-", expire |-> Undef,
            interval |-> Undef, waitTime |-> Undef, wait |-> FALSE,
            tok |-> 0, exp |-> 0, res |-> "-", arg |-> 0,
            start_time |-> 0, wake |-> 0, ret |-> "none",
            flag |-> FALSE, ran |-> 0, rel |-> 0, err |-> FALSE,
            out |-> "none", freed |-> FALSE, faulted |-> FALSE]

\* the call of a flow is over: its locals are gone, its results are with the caller
Finish(r) ==
    [r EXCEPT !.pc = "done", !.expire = Undef, !.interval = Undef, !.waitTime = Undef,
              !.wait = FALSE, !.tok = 0, !.exp = 0, !.arg = 0, !.start_time = 0,
              !.wake = 0]

Bool2Ret(b) == IF b THEN "true" ELSE "false"

\* ------------------------------------------------------------- the store
\* (mutant) SET without NX: the value is written over a record in place
SetNoNx(rec, value, expire, t, p) ==
    [reply |-> "OK",
     rec |-> [tok |-> value, exp |-> t + expire, by |-> p, at |-> t, ttl |-> expire]]

\* (mutant) SET NX EX: the expiry counted in seconds, not milliseconds
SetNxEx(rec, value, expire, t, p) ==
    IF rec = NoRec
    THEN [reply |-> "OK",
          rec |-> [tok |-> value, exp |-> t + expire * 1000, by |-> p, at |-> t, ttl |-> expire]]
    ELSE [reply |-> "null", rec |-> rec]

\* (mutant) a reentrant lock: the process that wrote the record may take it again
SetReentrant(rec, value, expire, t, p) ==
    IF rec = NoRec \/ rec.by = p
    THEN [reply |-> "OK",
          rec |-> [tok |-> value, exp |-> t + expire, by |-> p, at |-> t, ttl |-> expire]]
    ELSE [reply |-> "null", rec |-> rec]

\* client.set(key, value, 'NX', 'PX', expire) executed by the store at time t
SetNxPx(rec, value, expire, t, p) ==
    IF rec = NoRec
    THEN [reply |-> "OK",
          rec |-> [tok |-> value, exp |-> t + expire, by |-> p, at |-> t, ttl |-> expire]]
    ELSE [reply |-> "null", rec |-> rec]

\* (mutant) a release that deletes without comparing the token
lua_unlock_nocheck(rec, argv1) ==
    IF rec = NoRec THEN [reply |-> "0", rec |-> rec]
    ELSE [reply |-> "1", rec |-> NoRec]

\* the lua_unlock script, executed by the store in one step
lua_unlock(rec, argv1) ==
    IF rec = NoRec THEN [reply |-> "0", rec |-> rec]
    ELSE IF rec.tok = argv1 THEN [reply |-> "1", rec |-> NoRec]
    ELSE [reply |-> "-1", rec |-> rec]

\* (mutant) the store drops a record at the first tick after its SET
ExpiredEarly(rec, t) == rec # NoRec /\ rec.at < t

\* the store drops a record when its PX expiry is reached
Expired(rec, t) == rec # NoRec /\ rec.exp <= t

\* history (freed): a pending waitLock whose key became free before its
\* deadline; (faulted): a store command of a waitLock attempt failed
Observe(flx, st, t) ==
    [g \in Flows |->
        IF flx[g].wait /\ flx[g].pc \in {"L_set", "L_cont", "W_delay"}
           /\ st[<<KeyPrefix, flx[g].key>>] = NoRec
           /\ (t - flx[g].start_time) < flx[g].waitTime
        THEN [flx[g] EXCEPT !.freed = TRUE]
        ELSE flx[g]]

\* ---------------------------------------------------------------- Locker
\* the methods class Locker defines
LockerMethods == {"defineCommand", "lock", "waitLock", "unLock"}

\* helper.isFunction(locker[m]) for a Locker instance
isFunction(m) == m \in LockerMethods

\* defineCommand(): the client it returns ("null" after a failed connection)
defineCommand(c, connOk) ==
    IF c # "ready"
    THEN IF connOk THEN [client |-> "ready", ret |-> "client"]
                   ELSE [client |-> c, ret |-> "null"]
    ELSE [client |-> c, ret |-> "client"]

\* (mutant) a failed release replaces the operation's error
unLockReturnMask(r, result) ==
    IF r.top = "guard"
    THEN Finish([r EXCEPT !.ret = result,
                          !.out = IF result # "true" THEN "threw_release"
                                  ELSE IF r.err THEN "threw_op" ELSE "returned"])
    ELSE Finish([r EXCEPT !.ret = result])

\* what the caller of unLock does with its result (the finally clause of
\* the wrapped value, or a direct caller)
unLockReturn(r, result) ==
    IF r.top = "guard"
    THEN Finish([r EXCEPT !.ret = result,
                          !.out = IF r.err THEN "threw_op" ELSE "returned"])
    ELSE Finish([r EXCEPT !.ret = result])

\* (mutant) the operation is invoked whatever the acquisition returned
guardAlways(r, lockerFlag) ==
    [r EXCEPT !.pc = "G_op", !.flag = lockerFlag, !.ran = r.ran + 1]

\* (mutant) a failed acquisition raises instead of returning
guardThrowOnFail(r, lockerFlag) ==
    IF lockerFlag
    THEN [r EXCEPT !.pc = "G_op", !.flag = TRUE, !.ran = r.ran + 1]
    ELSE Finish([r EXCEPT !.flag = FALSE, !.out = "threw_locker"])

\* the wrapped value after the acquisition: if (lockerFlag) {...} else {...}
guardAcquired(r, lockerFlag) ==
    IF lockerFlag
    THEN [r EXCEPT !.pc = "G_op", !.flag = TRUE, !.ran = r.ran + 1]
    ELSE Finish([r EXCEPT !.flag = FALSE, !.out = "returned"])

\* waitLock returns `result`
waitLockReturn(r, result) ==
    IF r.top = "guard"
    THEN guardAcquired([r EXCEPT !.ret = Bool2Ret(result), !.wait = FALSE,
                                 !.freed = FALSE, !.faulted = FALSE], result)
    ELSE Finish([r EXCEPT !.ret = Bool2Ret(result)])

\* (mutant) waitLock gives up after its first attempt, whatever the deadline
waitLockOnce(r, t) ==
    IF t = r.start_time /\ (t - r.start_time) < r.waitTime
    THEN [r EXCEPT !.pc = "L_set"]
    ELSE waitLockReturn(r, FALSE)

\* the loop of waitLock, entered at time t: one more lock attempt, or timeout
waitLockLoop(r, t) ==
    IF (t - r.start_time) < r.waitTime
    THEN [r EXCEPT !.pc = "L_set"]
    ELSE waitLockReturn(r, FALSE)

\* lock returns `result` at time t
lockReturn(r, result, t) ==
    IF r.wait
    THEN IF result THEN waitLockReturn(r, TRUE)
         ELSE [r EXCEPT !.pc = "W_delay", !.wake = t + r.interval]
    ELSE IF r.top = "guard" THEN guardAcquired([r EXCEPT !.ret = Bool2Ret(result)], result)
    ELSE Finish([r EXCEPT !.ret = Bool2Ret(result)])

\* a fresh call of a flow
NewCall(top, key) ==
    [IdleRec EXCEPT !.top = top, !.key = key]

\* lock(key, expire = 10000): up to the first await
lockEntry(r, expire) ==
    [r EXCEPT !.pc = "L_set", !.expire = expire]

\* waitLock(key, expire, interval = 50, waitTime = 15000): up to the first await
waitLockEntry(r, expire, interval, waitTime, t) ==
    waitLockLoop([r EXCEPT !.expire = expire, !.wait = TRUE,
                           !.interval = Default(interval, DefaultInterval),
                           !.waitTime = Default(waitTime, DefaultWaitTime),
                           !.start_time = t], t)

\* InitCacheStore(app): the value of ScheduleLocker.locker it leaves, and
\* whether it throws
InitCacheStore(l) ==
    IF l = "null"
    THEN IF isFunction("getClient")
         THEN [locker |-> "set", threw |-> FALSE]
         ELSE [locker |-> "null", threw |-> TRUE]
    ELSE [locker |-> l, threw |-> FALSE]

\* the wrapped value of SchedulerLock, lines 123-142: up to the first await
SchedulerLock(r, l, lockTimeOut, waitLockInterval, waitLockTimeOut, t) ==
    IF l = "null"
    THEN Finish([r EXCEPT !.out = "threw_locker"])
    ELSE IF Truthy(waitLockInterval) \/ Truthy(waitLockTimeOut)
    THEN waitLockEntry(r, lockTimeOut, waitLockInterval, waitLockTimeOut, t)
    ELSE lockEntry(r, lockTimeOut)

\* ------------------------------------------------------------------ Init
Init ==
    /\ owner \in {[f \in Flows |-> "A"], [f \in Flows |-> IF f = "f1" THEN "A" ELSE "B"]}
    /\ now = 0
    /\ store = [k \in PKeys |-> NoRec]
    /\ dels = {}
    /\ nextTok = 1
    /\ app = [p \in Procs |-> "init"]
    /\ client = [p \in Procs |-> "null"]
    /\ lockMap = [p \in Procs |-> [k \in PKeys |-> NoEntry]]
    /\ locker = [p \in Procs |-> "null"]
    /\ fl = [f \in Flows |-> IdleRec]
    /\ cron = [f \in Flows |-> NoJob]

\* --------------------------------------------------------------- actions
\* time passes; the store expires the records whose PX time is reached
Tick ==
    /\ now < MaxTime
    /\ now' = now + 1
    /\ store' = [k \in PKeys |-> IF Expired(store[k], now + 1) THEN NoRec ELSE store[k]]
    /\ fl' = IF store' # store THEN Observe(fl, store', now + 1) ELSE fl
    /\ UNCHANGED <<cron, owner, dels, nextTok, app, client, lockMap, locker>>

\* the appStart event of a process: the handler bound by bindSchedulerLockInit
AppStart(p) ==
    /\ app[p] = "init"
    /\ app' = [app EXCEPT ![p] = IF InitCacheStore(locker[p]).threw THEN "rejected" ELSE "started"]
    /\ locker' = [locker EXCEPT ![p] = InitCacheStore(locker[p]).locker]
    /\ UNCHANGED <<cron, owner, now, store, dels, nextTok, client, lockMap, fl>>

\* calls are made once the application of the process has started
CanCall(f) == fl[f].pc = "idle" /\ app[ProcOf(f)] # "init"

\* the caller has taken the result of the call; the flow may make another call
Return(f) ==
    /\ fl[f].pc = "done"
    /\ fl' = [fl EXCEPT ![f] = IdleRec]
    /\ UNCHANGED <<cron, owner, now, store, dels, nextTok, app, client, lockMap, locker>>

\* a direct call of Locker.lock(key, expire)
CallLock(f, k, expire) ==
    /\ CanCall(f)
    /\ fl' = [fl EXCEPT ![f] = lockEntry(NewCall("lock", k), expire)]
    /\ UNCHANGED <<cron, owner, now, store, dels, nextTok, app, client, lockMap, locker>>

\* a direct call of Locker.waitLock(key, expire, interval, waitTime)
CallWaitLock(f, k, expire, interval, waitTime) ==
    /\ CanCall(f)
    /\ fl' = [fl EXCEPT ![f] =
                waitLockEntry(NewCall("waitLock", k), expire, interval, waitTime, now)]
    /\ UNCHANGED <<cron, owner, now, store, dels, nextTok, app, client, lockMap, locker>>

\* a direct call of Locker.unLock(key)
CallUnLock(f, k) ==
    /\ CanCall(f)
    /\ fl' = [fl EXCEPT ![f] = [NewCall("unLock", k) EXCEPT !.pc = "U_send"]]
    /\ UNCHANGED <<cron, owner, now, store, dels, nextTok, app, client, lockMap, locker>>

\* lock, lines 102-105: defineCommand, then the store executes SET NX PX
LockSet(f, connOk, cmdOk) ==
    LET p == ProcOf(f)
        r == fl[f]
        dc == defineCommand(client[p], connOk)
        key == PrefixKey(r.key)
        value == randomBytes
        sx == SetNxPx(store[key], value, Default(r.expire, DefaultExpire), now, p)
    IN /\ r.pc = "L_set"
       /\ client' = [client EXCEPT ![p] = dc.client]
       /\ IF dc.ret = "null" \/ ~cmdOk
          THEN /\ fl' = [fl EXCEPT ![f] = [r EXCEPT !.pc = "L_cont", !.res = "err", !.tok = 0,
                                             !.faulted = r.wait]]
               /\ UNCHANGED <<store, nextTok>>
          ELSE /\ sx.reply = "OK" => nextTok <= MaxTok
               /\ store' = [store EXCEPT ![key] = sx.rec]
               /\ nextTok' = IF sx.reply = "OK" THEN nextTok + 1 ELSE nextTok
               /\ fl' = [fl EXCEPT ![f] = [r EXCEPT !.pc = "L_cont", !.res = sx.reply,
                                             !.tok = IF sx.reply = "OK" THEN value ELSE 0,
                                             !.exp = IF sx.reply = "OK" THEN sx.rec.exp ELSE 0]]
       /\ UNCHANGED <<cron, owner, now, dels, app, lockMap, locker>>

\* (mutant) lock without its catch: a failed store command reaches the caller
LockContNoCatch(f) ==
    LET p == ProcOf(f)
        r == fl[f]
        key == PrefixKey(r.key)
    IN /\ r.pc = "L_cont"
       /\ IF r.res = "OK"
          THEN /\ lockMap' = [lockMap EXCEPT ![p][key] =
                     [value |-> r.tok, expire |-> Default(r.expire, DefaultExpire)]]
               /\ fl' = [fl EXCEPT ![f] = lockReturn(r, TRUE, now)]
          ELSE /\ fl' = [fl EXCEPT ![f] =
                          IF r.res = "err" THEN Finish([r EXCEPT !.out = "threw_engine"])
                          ELSE lockReturn(r, FALSE, now)]
               /\ UNCHANGED lockMap
       /\ UNCHANGED <<cron, owner, now, store, dels, nextTok, app, client, locker>>

\* lock, lines 106-116: the code after the await
LockCont(f) ==
    LET p == ProcOf(f)
        r == fl[f]
        key == PrefixKey(r.key)
    IN /\ r.pc = "L_cont"
       /\ IF r.res = "OK"
          THEN /\ lockMap' = [lockMap EXCEPT ![p][key] =
                     [value |-> r.tok, expire |-> Default(r.expire, DefaultExpire)]]
               /\ fl' = [fl EXCEPT ![f] = lockReturn(r, TRUE, now)]
          ELSE /\ fl' = [fl EXCEPT ![f] = lockReturn(r, FALSE, now)]
               /\ UNCHANGED lockMap
       /\ UNCHANGED <<cron, owner, now, store, dels, nextTok, app, client, locker>>

\* waitLock, lines 141 and 134: delay(interval) resolves, the loop test runs
WaitDelay(f) ==
    /\ fl[f].pc = "W_delay"
    /\ now >= fl[f].wake
    /\ fl' = [fl EXCEPT ![f] = waitLockLoop(fl[f], now)]
    /\ UNCHANGED <<cron, owner, now, store, dels, nextTok, app, client, lockMap, locker>>

\* unLock, lines 172-178: defineCommand, the lockMap test, the script is sent
UnlockSend(f, connOk) ==
    LET p == ProcOf(f)
        r == fl[f]
        dc == defineCommand(client[p], connOk)
        key == PrefixKey(r.key)
    IN /\ r.pc = "U_send"
       /\ client' = [client EXCEPT ![p] = dc.client]
       /\ fl' = [fl EXCEPT ![f] =
                   IF lockMap[p][key] = NoEntry THEN unLockReturn(r, "null")
                   ELSE IF dc.ret = "null"
                   THEN unLockReturn([r EXCEPT !.res = "err"], "false")
                   ELSE [r EXCEPT !.pc = "U_exec", !.arg = lockMap[p][key].value]]
       /\ UNCHANGED <<cron, owner, now, store, dels, nextTok, app, lockMap, locker>>

\* the store executes lua_unlock(key, value), or the command fails
UnlockExec(f, cmdOk) ==
    LET r == fl[f]
        key == PrefixKey(r.key)
        lu == lua_unlock(store[key], r.arg)
    IN /\ r.pc = "U_exec"
       /\ IF cmdOk
          THEN /\ store' = [store EXCEPT ![key] = lu.rec]
               /\ dels' = IF lu.reply = "1"
                          THEN dels \cup {[tok |-> r.arg, by |-> ProcOf(f)]} ELSE dels
               /\ fl' = [Observe(fl, store', now) EXCEPT
                           ![f] = [r EXCEPT !.pc = "U_cont", !.res = lu.reply]]
          ELSE /\ fl' = [fl EXCEPT ![f] = [r EXCEPT !.pc = "U_cont", !.res = "err"]]
               /\ UNCHANGED <<store, dels>>
       /\ UNCHANGED <<cron, owner, now, nextTok, app, client, lockMap, locker>>

\* (mutant) unLock clears the whole ownership map instead of one key
UnlockContClear(f) ==
    LET p == ProcOf(f)
        r == fl[f]
    IN /\ r.pc = "U_cont"
       /\ IF r.res = "err"
          THEN /\ fl' = [fl EXCEPT ![f] = unLockReturn(r, "false")]
               /\ UNCHANGED lockMap
          ELSE /\ lockMap' = [lockMap EXCEPT ![p] = [k \in PKeys |-> NoEntry]]
               /\ fl' = [fl EXCEPT ![f] = unLockReturn(r, "true")]
       /\ UNCHANGED <<cron, owner, now, store, dels, nextTok, app, client, locker>>

\* unLock, lines 179-183: the code after the await
UnlockCont(f) ==
    LET p == ProcOf(f)
        r == fl[f]
        key == PrefixKey(r.key)
    IN /\ r.pc = "U_cont"
       /\ IF r.res = "err"
          THEN /\ fl' = [fl EXCEPT ![f] = unLockReturn(r, "false")]
               /\ UNCHANGED lockMap
          ELSE /\ lockMap' = [lockMap EXCEPT ![p][key] = NoEntry]
               /\ fl' = [fl EXCEPT ![f] = unLockReturn(r, "true")]
       /\ UNCHANGED <<cron, owner, now, store, dels, nextTok, app, client, locker>>

\* a call of a method wrapped by SchedulerLock(name, lockTimeOut,
\* waitLockInterval, waitLockTimeOut)
CallGuard(f, name, lockTimeOut, waitLockInterval, waitLockTimeOut) ==
    /\ CanCall(f)
    /\ fl' = [fl EXCEPT ![f] = SchedulerLock(NewCall("guard", name), locker[ProcOf(f)],
                                   lockTimeOut, waitLockInterval, waitLockTimeOut, now)]
    /\ UNCHANGED <<cron, owner, now, store, dels, nextTok, app, client, lockMap, locker>>

\* (mutant) no finally clause: a raising operation skips the release
OpFinishNoFinally(f, raises) ==
    /\ fl[f].pc = "G_op"
    /\ fl' = [fl EXCEPT ![f] =
                IF raises
                THEN Finish([fl[f] EXCEPT !.err = TRUE, !.out = "threw_op"])
                ELSE [fl[f] EXCEPT !.pc = "U_send", !.rel = fl[f].rel + 1]]
    /\ UNCHANGED <<cron, owner, now, store, dels, nextTok, app, client, lockMap, locker>>

\* the wrapped method finishes, normally or raising; the finally clause
\* calls unLock(name)
OpFinish(f, raises) ==
    /\ fl[f].pc = "G_op"
    /\ fl' = [fl EXCEPT ![f] =
                IF isFunction("unLock")
                THEN [fl[f] EXCEPT !.pc = "U_send", !.err = raises, !.rel = fl[f].rel + 1]
                ELSE unLockReturn([fl[f] EXCEPT !.err = raises], "none")]
    /\ UNCHANGED <<cron, owner, now, store, dels, nextTok, app, client, lockMap, locker>>

Expires == {Undef} \cup (1 .. MaxTtl)

\* the decorator's wait arguments: omitted, or poll every 1 for at most 2
WaitArgs == {<<Undef, Undef>>, <<1, 2>>}

\* the steps of the calls under way, and of the clock
EngineSteps ==
    \/ Tick
    \/ \E f \in Flows, connOk \in BOOLEAN, cmdOk \in BOOLEAN : LockSet(f, connOk, cmdOk)
    \/ \E f \in Flows : LockCont(f)
    \/ \E f \in Flows : WaitDelay(f)
    \/ \E f \in Flows, connOk \in BOOLEAN : UnlockSend(f, connOk)
    \/ \E f \in Flows, cmdOk \in BOOLEAN : UnlockExec(f, cmdOk)
    \/ \E f \in Flows : UnlockCont(f)
    \/ \E f \in Flows : Return(f)

\* direct calls of the engine
EngineCalls ==
    \/ \E f \in Flows, k \in Names, e \in Expires : CallLock(f, k, e)
    \/ \E f \in Flows, k \in Names, e \in Expires : CallWaitLock(f, k, e, 1, 2)
    \/ \E f \in Flows, k \in Names : CallUnLock(f, k)

GuardCall ==
    \E f \in Flows, k \in Names, e \in Expires, w \in WaitArgs : CallGuard(f, k, e, w[1], w[2])

\* the program as shipped
Next ==
    \/ \E p \in Procs : AppStart(p)
    \/ EngineSteps
    \/ EngineCalls
    \/ GuardCall

Spec == Init /\ [][Next]_vars

\* the executor with the engine handle in place: ScheduleLocker.locker holds
\* the Locker of the process
InitReady ==
    /\ owner \in {[f \in Flows |-> "A"], [f \in Flows |-> IF f = "f1" THEN "A" ELSE "B"]}
    /\ now = 0
    /\ store = [k \in PKeys |-> NoRec]
    /\ dels = {}
    /\ nextTok = 1
    /\ app = [p \in Procs |-> "started"]
    /\ client = [p \in Procs |-> "null"]
    /\ lockMap = [p \in Procs |-> [k \in PKeys |-> NoEntry]]
    /\ locker = [p \in Procs |-> "set"]
    /\ fl = [f \in Flows |-> IdleRec]
    /\ cron = [f \in Flows |-> NoJob]

NextReady ==
    \/ EngineSteps
    \/ GuardCall
    \/ \E f \in Flows, raises \in BOOLEAN : OpFinish(f, raises)

SpecReady == InitReady /\ [][NextReady]_vars

\* ------------------------------------------------------- scheduled jobs
\* execInjectSchedule at appStart: new CronJob(cron, callback).start() for a
\* method, decorated with SchedulerLock(name, args) (lock) or not
CronStart(f, lock, args) ==
    /\ app[ProcOf(f)] # "init"
    /\ cron[f].job = "none"
    /\ cron' = [cron EXCEPT ![f] = [NoJob EXCEPT !.job = "started", !.lock = lock, !.args = args]]
    /\ UNCHANGED <<owner, now, store, dels, nextTok, app, client, lockMap, locker, fl>>

\* a tick of the job: the callback calls instance[method]()
CronTick(f) ==
    /\ cron[f].job = "started"
    /\ fl[f].pc = "idle"
    /\ cron[f].fired < MaxFire
    /\ cron' = [cron EXCEPT ![f].fired = cron[f].fired + 1]
    /\ fl' = [fl EXCEPT ![f] =
                IF cron[f].lock
                THEN SchedulerLock(NewCall("guard", "k1"), locker[ProcOf(f)],
                                   cron[f].args[1], cron[f].args[2], cron[f].args[3], now)
                ELSE [NewCall("plain", "-") EXCEPT !.pc = "P_op"]]
    /\ UNCHANGED <<owner, now, store, dels, nextTok, app, client, lockMap, locker>>

\* a scheduled method without lock finishes, normally or raising
PlainFinish(f, raises) ==
    /\ fl[f].pc = "P_op"
    /\ fl' = [fl EXCEPT ![f] = Finish([fl[f] EXCEPT !.err = raises, !.ran = 1,
                                 !.out = IF raises THEN "threw_op" ELSE "returned"])]
    /\ UNCHANGED <<cron, owner, now, store, dels, nextTok, app, client, lockMap, locker>>

\* the method's promise has settled with a rejection
Threw(r) == r.out \in {"threw_op", "threw_locker"}

\* (mutant) a callback without try/catch: a rejection ends the job
CronReturnNoCatch(f) ==
    /\ cron[f].job = "started"
    /\ fl[f].pc = "done"
    /\ fl' = [fl EXCEPT ![f] = IdleRec]
    /\ cron' = [cron EXCEPT ![f].job = IF Threw(fl[f]) THEN "dead" ELSE "started"]
    /\ UNCHANGED <<owner, now, store, dels, nextTok, app, client, lockMap, locker>>

\* the callback after the await: return res, or catch (e) { logger.Error(e) }
CronReturn(f) ==
    /\ cron[f].job = "started"
    /\ fl[f].pc = "done"
    /\ fl' = [fl EXCEPT ![f] = IdleRec]
    /\ cron' = [cron EXCEPT ![f].caught = IF Threw(fl[f]) THEN cron[f].caught + 1
                                          ELSE cron[f].caught]
    /\ UNCHANGED <<owner, now, store, dels, nextTok, app, client, lockMap, locker>>

\* the decorator arguments of the scheduled methods of a run
JobArgs == {NoArgs, <<Undef, 1, 2>>}

\* the scheduled jobs of the program as shipped
NextCron ==
    \/ \E p \in Procs : AppStart(p)
    \/ \E f \in Flows, lock \in BOOLEAN, args \in JobArgs : CronStart(f, lock, args)
    \/ \E f \in Flows : CronTick(f)
    \/ \E f \in Flows, raises \in BOOLEAN : PlainFinish(f, raises)
    \/ \E f \in Flows : CronReturn(f)

SpecCron == Init /\ [][NextCron]_vars

\* the decorator's arguments, each of the wait arguments omitted, 0 or positive
ModeArgs == {<<Undef, i, w>> : i \in {Undef, 0, 1}, w \in {Undef, 0, 2}}

\* one locked job with the engine handle in place, under every choice of
\* its wait arguments
NextMode ==
    \/ \E a \in ModeArgs : CronStart("f1", TRUE, a)
    \/ CronTick("f1")
    \/ CronReturn("f1")
    \/ \E raises \in BOOLEAN : OpFinish("f1", raises)
    \/ Tick
    \/ \E connOk \in BOOLEAN, cmdOk \in BOOLEAN : LockSet("f1", connOk, cmdOk)
    \/ LockCont("f1")
    \/ WaitDelay("f1")
    \/ \E connOk \in BOOLEAN : UnlockSend("f1", connOk)
    \/ \E cmdOk \in BOOLEAN : UnlockExec("f1", cmdOk)
    \/ UnlockCont("f1")

SpecMode == InitReady /\ [][NextMode]_vars

\* direct calls of the engine on several keys, the store reachable
NextKeys ==
    \/ \E p \in Procs : AppStart(p)
    \/ Tick
    \/ \E f \in Flows : LockSet(f, TRUE, TRUE)
    \/ \E f \in Flows : LockCont(f)
    \/ \E f \in Flows : WaitDelay(f)
    \/ \E f \in Flows : UnlockSend(f, TRUE)
    \/ \E f \in Flows : UnlockExec(f, TRUE)
    \/ \E f \in Flows : UnlockCont(f)
    \/ \E f \in Flows : Return(f)
    \/ \E f \in Flows, k \in Keys : CallLock(f, k, Undef)
    \/ \E f \in Flows, k \in Keys : CallWaitLock(f, k, Undef, 1, 2)
    \/ \E f \in Flows, k \in Keys : CallUnLock(f, k)

SpecKeys == Init /\ [][NextKeys]_vars

\* ---------------------------------------------------------------- claims
KeyOf(f) == PrefixKey(fl[f].key)
InCall(f, top) == fl[f].top = top /\ fl[f].pc # "idle"
Done(f, top) == fl[f].top = top /\ fl[f].pc = "done"
Releasing(f) == fl[f].pc \in {"U_send", "U_exec", "U_cont"}
\* flow f takes the step of lock in which the store answers its SET
SetAnswered(f) == fl[f].pc = "L_set" /\ fl'[f].pc = "L_cont" /\ fl'[f].res # "err"

\* C1 (1/2): at any instant at most one process, and at most one call under
\* way, holds the token that the record of a key carries.
C1_AtMostOneHolder ==
    \A k \in PKeys :
        /\ Cardinality({p \in Procs : lockMap[p][k] # NoEntry
                                      /\ lockMap[p][k].value = store[k].tok}) <= 1
        /\ Cardinality({f \in Flows : fl[f].tok # 0 /\ KeyOf(f) = k
                                      /\ fl[f].tok = store[k].tok}) <= 1

\* C1 (2/2): a SET the store answers is granted exactly when no record of
\* the key exists, and a refused one leaves the record as it is.
C1_GrantStep ==
    \A f \in Flows :
        SetAnswered(f) =>
            /\ (fl'[f].res = "OK") <=> (store[KeyOf(f)] = NoRec)
            /\ store[KeyOf(f)] # NoRec => store'[KeyOf(f)] = store[KeyOf(f)]

\* C1: no double grant.  Of the acquire calls the store answers, one is
\* granted exactly when no record of the key exists; while a granted record
\* is neither expired nor released every further acquire (by any process,
\* the holder included) is refused; at most one acquirer holds the key.
C1_NoDoubleGrant == []C1_AtMostOneHolder /\ [][C1_GrantStep]_vars

\* C1 witness: an acquire is refused while the record of a holder is in place
C1_Witness ==
    \E f \in Flows, p \in Procs :
        /\ fl[f].pc = "L_cont" /\ fl[f].res = "null"
        /\ lockMap[p][KeyOf(f)] # NoEntry
        /\ lockMap[p][KeyOf(f)].value = store[KeyOf(f)].tok

C4_Step ==
    \A k \in PKeys :
        (store[k] # NoRec /\ store'[k] # store[k] /\ ~Expired(store[k], now'))
        => \E f \in Flows :
              /\ fl[f].pc = "U_exec" /\ fl'[f].pc = "U_cont" /\ KeyOf(f) = k
              /\ ProcOf(f) = store[k].by /\ fl[f].arg = store[k].tok
              /\ store'[k] = NoRec

\* C4: a release never deletes another holder's lock.
C4_ReleaseSafe == [][C4_Step]_vars

\* C4 witness: the release of a process whose record expired has been
\* answered TOKEN_MISMATCH, and the record of the other process is in place
C4_Witness ==
    \E f \in Flows :
        /\ fl[f].top = "unLock" /\ fl[f].pc = "U_cont" /\ fl[f].res = "-1"
        /\ store[KeyOf(f)] # NoRec /\ store[KeyOf(f)].by # ProcOf(f)

\* C5 as claimed: release returns null when the key is not tracked locally,
\* 0 when the record is absent, 1 when it was deleted, -1 on a token mismatch.
C5_StatusCodes ==
    \A f \in Flows :
        Done(f, "unLock") =>
            /\ fl[f].res = "-" => fl[f].ret = "null"
            /\ fl[f].res = "0" => fl[f].ret = "0"
            /\ fl[f].res = "1" => fl[f].ret = "1"
            /\ fl[f].res = "-1" => fl[f].ret = "-1"

\* C6: in a guarded invocation whose acquisition succeeded the release is
\* attempted exactly once, after the operation has finished and before the
\* call returns, whether the operation returned or raised; no release is
\* attempted otherwise.
C6_ReleaseOnce ==
    \A f \in Flows :
        InCall(f, "guard") =>
            /\ fl[f].pc \in {"L_set", "L_cont", "W_delay", "G_op"} => fl[f].rel = 0
            /\ Releasing(f) => (fl[f].rel = 1 /\ fl[f].ran = 1)
            /\ fl[f].pc = "done" => fl[f].rel = (IF fl[f].flag THEN 1 ELSE 0)

\* C6 witness: a guarded invocation whose operation raised has returned
\* after one release
C6_Witness ==
    \E f \in Flows : Done(f, "guard") /\ fl[f].flag /\ fl[f].err /\ fl[f].rel = 1

\* C7: when the operation raises, the caller observes that error, and only
\* once the release attempt is over; the outcome of the release (done,
\* absent record, token mismatch, store error) does not change it.
C7_ErrorKept ==
    \A f \in Flows :
        InCall(f, "guard") =>
            /\ (fl[f].pc = "done" /\ fl[f].err) => (fl[f].out = "threw_op" /\ fl[f].rel = 1)
            /\ fl[f].out = "threw_op" => (fl[f].err /\ fl[f].pc = "done")
            /\ fl[f].pc # "done" => fl[f].out = "none"

\* C7 witness: the operation raised, the release failed on a store error,
\* and the caller has the operation's error
C7_Witness ==
    \E f \in Flows :
        Done(f, "guard") /\ fl[f].err /\ fl[f].out = "threw_op" /\ fl[f].ret = "false"

\* C8 (1/2): a guarded invocation that did not acquire has returned
\* normally, without invoking the operation and without a release.
C8_Skipped ==
    \A f \in Flows :
        (Done(f, "guard") /\ ~fl[f].flag /\ locker[ProcOf(f)] # "null")
        => (fl[f].out = "returned" /\ fl[f].ran = 0 /\ fl[f].rel = 0)

\* C8 (2/2): the step in which it returns leaves the store and the
\* ownership maps as they are.
C8_SkipStep ==
    \A f \in Flows :
        (fl[f].top = "guard" /\ fl[f].pc \in {"L_cont", "W_delay"} /\ fl'[f].pc = "done")
        => (store' = store /\ lockMap' = lockMap)

\* C8: when the acquisition fails (refused single attempt, or timed out
\* wait) the guarded executor returns normally, invokes nothing, raises
\* nothing, releases nothing, and the holder's record is unchanged.
C8_SkipOnFailure == []C8_Skipped /\ [][C8_SkipStep]_vars

\* C8 witness: a guarded invocation was skipped, the record of the holder is
\* in place
C8_Witness ==
    \E f \in Flows :
        /\ Done(f, "guard") /\ ~fl[f].flag /\ fl[f].out = "returned"
        /\ fl[f].res = "null" /\ store[KeyOf(f)] # NoRec

\* C9 (1/2): a record is gone once its ttl has elapsed since the SET that
\* wrote it.
C9_Expires ==
    \A k \in PKeys : store[k] # NoRec => now < store[k].at + store[k].ttl

\* C9 (2/2): the store refuses a SET only because of a record whose ttl has
\* not elapsed.
C9_RefusedStep ==
    \A f \in Flows :
        (SetAnswered(f) /\ fl'[f].res = "null")
        => (store[KeyOf(f)] # NoRec
            /\ now < store[KeyOf(f)].at + store[KeyOf(f)].ttl)

\* C9: crash recovery by TTL.  The record of a holder that never releases
\* disappears when its ttl has elapsed, and an acquire the store answers
\* after that is refused only by a newer unexpired record.
C9_TtlRecovery == []C9_Expires /\ [][C9_RefusedStep]_vars

\* C9 witness: a process still tracks a key it acquired and never released,
\* and another process holds the key
C9_Witness ==
    \E p, q \in Procs, k \in PKeys :
        /\ p # q /\ lockMap[p][k] # NoEntry
        /\ store[k] # NoRec /\ store[k].by = q
        /\ store[k].tok # lockMap[p][k].value
        /\ \A d \in dels : d.tok # lockMap[p][k].value

\* C10 as claimed: waitAcquire returns true if the key was released, or its
\* record expired, before maxWait had elapsed since the call started (no
\* store command of the call having failed).
C10_Original ==
    \A f \in Flows :
        (Done(f, "waitLock") /\ ~fl[f].faulted /\ fl[f].freed) => fl[f].ret = "true"

\* C10 (1/2): waitLock returns true exactly when its last acquire attempt
\* succeeded.
C10_Result ==
    \A f \in Flows :
        Done(f, "waitLock") => ((fl[f].ret = "true") <=> (fl[f].res = "OK"))

\* C10 (2/2): an attempt follows a loop test made before the deadline, one
\* poll interval or more after the attempt before; false is returned by the
\* first loop test made at or after the deadline.
C10_LoopStep ==
    \A f \in Flows :
        (fl[f].top = "waitLock" /\ fl[f].pc = "W_delay" /\ fl'[f].pc # "W_delay")
        => /\ now >= fl[f].wake
           /\ IF (now - fl[f].start_time) < fl[f].waitTime
              THEN fl'[f].pc = "L_set"
              ELSE fl'[f].pc = "done" /\ fl'[f].ret = "false"

\* C10 amended: waitAcquire returns true exactly when one of its own acquire
\* attempts succeeded; attempts are made at the call and after each poll
\* interval while the elapsed time is below maxWait; it returns false at the
\* first loop test at or after the deadline.  A release or expiry before the
\* deadline that no attempt meets does not make it return true.
C10_Amended == []C10_Result /\ [][C10_LoopStep]_vars

\* C10 witness: a waitLock returned true after the key became free during
\* its wait
C10_Witness ==
    \E f \in Flows : Done(f, "waitLock") /\ fl[f].ret = "true" /\ fl[f].freed

\* C11 (step): an unLock for a key the process has no lockMap entry for
\* returns null, and its step leaves the connection of the process, the
\* store and the ownership maps as they are.
C11_Step ==
    \A f \in Flows :
        (/\ fl[f].pc = "U_send" /\ fl'[f].pc # "U_send"
         /\ lockMap[ProcOf(f)][KeyOf(f)] = NoEntry)
        => /\ fl'[f].ret = "null"
           /\ client' = client /\ store' = store /\ lockMap' = lockMap

\* C11 as claimed: release(key) for a key not tracked locally returns
\* NOT_TRACKED_LOCALLY without any call to the store: no connection attempt,
\* no script registration, no read or delete.
C11_NoStoreContact == [][C11_Step]_vars

\* C12 (step): when unLock returns for a key that had a lockMap entry, the
\* entry is gone.
C12_Step ==
    \A f \in Flows :
        (/\ Releasing(f) /\ fl'[f].pc = "done"
         /\ lockMap[ProcOf(f)][KeyOf(f)] # NoEntry)
        => lockMap'[ProcOf(f)][KeyOf(f)] = NoEntry

\* C12 as claimed: after release(key) returns for a key that had a local
\* ownership entry, the entry is gone whatever the outcome: record deleted,
\* record absent, token mismatch, store error or unavailable connection.
C12_EntryRemoved == [][C12_Step]_vars

EngineTops == {"lock", "waitLock", "unLock"}

\* C13 (1/2): a finished call of lock, waitLock or unLock has returned a
\* value, and false when its last store command failed or no connection was
\* obtained; nothing was raised to its caller.
C13_Returned ==
    \A f \in Flows :
        (fl[f].top \in EngineTops /\ fl[f].pc = "done") =>
            /\ fl[f].out = "none"
            /\ fl[f].ret \in (IF fl[f].top = "unLock" THEN {"true", "false", "null"}
                              ELSE {"true", "false"})
            /\ fl[f].res \in {"err", "null"} => fl[f].ret = "false"

\* C13 (2/2): an acquire that did not succeed records no lockMap entry.
C13_Step ==
    \A f \in Flows :
        (fl[f].pc = "L_cont" /\ fl[f].res # "OK" /\ fl'[f].pc # "L_cont")
        => lockMap' = lockMap

C14_OnlyOperationErrors ==
    \A f \in Flows :
        Done(f, "guard") => fl[f].out \in {"returned", "threw_op"}

\* the flow that takes a step of its call
Steps(f) == fl'[f].pc # fl[f].pc

\* C15 (1/2): a step of a call on key k leaves the record of every other key
\* and every process's lockMap entry for every other key as they are.
C15_Frame ==
    \A f \in Flows, k \in Keys :
        (Steps(f) /\ (fl[f].key = k \/ fl'[f].key = k)) =>
            \A k2 \in Keys \ {k} :
                /\ store'[PrefixKey(k2)] = store[PrefixKey(k2)]
                /\ \A p \in Procs : lockMap'[p][PrefixKey(k2)] = lockMap[p][PrefixKey(k2)]

\* C15 (2/2): the answer to a SET on key k is decided by the record of k,
\* whatever the records of the other keys are.
C15_OwnKeyDecides ==
    \A f \in Flows, k \in Keys :
        (SetAnswered(f) /\ fl[f].key = k) =>
            /\ (fl'[f].res = "OK") <=> (store[PrefixKey(k)] = NoRec)
            /\ store'[PrefixKey(k)].tok \in {store[PrefixKey(k)].tok, fl'[f].tok}

\* C15: two different keys never interact.  acquire, waitAcquire and release
\* on k1 leave the record of every other key k2 and every process's local
\* ownership entry for k2 unchanged, and their results do not depend on k2.
C15_KeysIndependent == [][C15_Frame /\ C15_OwnKeyDecides]_vars

\* C15 witness: a process that holds k1 has just been granted k2
C15_Witness ==
    \E f \in Flows :
        /\ fl[f].pc = "L_cont" /\ fl[f].res = "OK" /\ fl[f].key = "k2"
        /\ store[PrefixKey("k1")] # NoRec
        /\ lockMap[ProcOf(f)][PrefixKey("k1")] # NoEntry
        /\ lockMap[ProcOf(f)][PrefixKey("k1")].value = store[PrefixKey("k1")].tok

\* C16 (1/2): a job that was started is never ended, and its next tick can
\* fire as soon as the callback of the tick before has returned.
C16_JobAlive ==
    \A f \in Flows :
        /\ cron[f].job \in {"none", "started"}
        /\ cron[f].caught <= cron[f].fired
        /\ (cron[f].job = "started" /\ fl[f].pc = "idle" /\ cron[f].fired < MaxFire)
           => ENABLED CronTick(f)

\* C16 (2/2): when the method called at a tick has raised, the callback
\* catches the error and returns; the job stays started.
C16_CatchStep ==
    \A f \in Flows :
        (cron[f].job = "started" /\ fl[f].pc = "done" /\ fl'[f].pc # "done")
        => /\ cron'[f].job = "started"
           /\ fl'[f] = IdleRec
           /\ cron'[f].caught = cron[f].caught + (IF Threw(fl[f]) THEN 1 ELSE 0)

\* C16: a failing tick never prevents later ticks.  When the callback of a
\* scheduled tick raises (an operation error, or an error of the guarded
\* wrapper), the error is caught inside the tick handler and the callback is
\* invoked again at the following ticks.
C16_TicksGoOn == []C16_JobAlive /\ [][C16_CatchStep]_vars

\* C16 witness: the method is being called at a tick that follows two ticks
\* whose call raised
C16_Witness ==
    \E f, g \in Flows :
        /\ f # g
        /\ cron[f].lock /\ cron[f].caught = 2 /\ cron[f].fired = 3 /\ fl[f].pc = "done"
        /\ ~cron[g].lock /\ cron[g].caught >= 1 /\ cron[g].fired > cron[g].caught
        /\ fl[g].pc = "P_op"

\* two guarded calls for one name in one process
SameProcName(f, g) ==
    /\ f # g /\ ProcOf(f) = ProcOf(g)
    /\ fl[f].top = "guard" /\ fl[g].top = "guard" /\ fl[f].key = fl[g].key

C17_RefusedStep ==
    \A f, g \in Flows :
        (/\ SameProcName(f, g) /\ fl[g].pc = "G_op"
         /\ store[KeyOf(g)].tok = fl[g].tok
         /\ SetAnswered(f))
        => (fl'[f].res = "null" /\ store' = store /\ lockMap' = lockMap)

\* C17 (2/2): two operation bodies for the name run in one process only
\* when the record of the earlier acquisition has expired or been deleted.
C17_Overlap ==
    \A f, g \in Flows :
        (SameProcName(f, g) /\ fl[f].pc = "G_op" /\ fl[g].pc = "G_op"
         /\ fl[f].tok < fl[g].tok)
        => (now >= fl[f].exp \/ \E d \in dels : d.tok = fl[f].tok)

Supplied(v) == v # Undef

C19_Step ==
    \A f \in Flows :
        (/\ fl[f].top = "guard" /\ fl[f].pc = "U_exec"
         /\ fl'[f].pc = "U_cont" /\ fl'[f].res = "1")
        => fl[f].arg = fl[f].tok

C20_HandleSet ==
    \A p \in Procs : app[p] # "init" => locker[p] = "set"

====
